---- MODULE Spec2Model ----
(***************************************************************************)
(* The backtesting engine of backend/app/trading/simulator.py              *)
(* (TradingSimulator.run_backtest and the methods it calls) as a state     *)
(* machine.                                                                *)
(*                                                                         *)
(* Units.  The source computes in floats; the model computes exactly, in   *)
(* fixed point:                                                            *)
(*   price        1 tick = 0.00005           (0.0001 = 2, 0.01 = 200)      *)
(*   pips         counted in half pips       (50 pips = 100)               *)
(*   money        1 unit = 0.05 dollars      (5.0 dollars = 100)           *)
(*   lot size     counted in 0.01 lots       (0.01 lot = 1)                *)
(*   confidence   counted in 0.01            (0.6 = 60)                    *)
(*   price_change counted in 0.0001          (0.001 = 10)                  *)
(*   drawdown     a fraction <<num, den>>, den > 0                         *)
(* Bars lie on the whole-pip grid of the pair, so every level and every    *)
(* quotient below is exact in these units (ExactUnits checks it).          *)
(***************************************************************************)
EXTENDS Integers, Sequences, FiniteSets, TLC

VARIABLES
    sim,        \* the TradingSimulator's fields (set by __init__)
    run,        \* the arguments of run_backtest
    state,      \* the SimulationState of the run
    market,     \* the bounds of the price series of the run
    i,          \* index of the bar of the loop; after the loop, len(prices)
    price_bar,  \* the bar of the loop body; None between bars
    last_price, \* timestamp and close of prices[-1], of the bars so far; None if none
    predict_args,   \* what model_manager.predict was called with on this bar
    result,     \* what model_manager.predict did on this bar
    signal,     \* what _generate_signal returned on this bar
    balances,   \* every value state.balance has taken, in order
    report,     \* what run_backtest returns
    pc,         \* position in run_backtest
    np_random,  \* the state of numpy's global generator (np.random), one per process
    tasks,      \* the runs executing concurrently in the process, each with its locals
    backtest_runs,  \* the rows of the table backtest_runs
    exchanges   \* the requests the API has answered, with their responses, in order

\* The variables of one run, and those of the process around it
runVars == <<sim, run, market, state, i, price_bar, last_price, predict_args, result, signal,
             balances, report, pc>>
serverVars == <<np_random, tasks, backtest_runs, exchanges>>

vars == <<runVars, serverVars>>

----------------------------------------------------------------------------
(* Bounds of the model *)

\* The longest volatile price series explored, and the longest calm one
\* (see Markets).
MaxBars == 37
CalmBars == 46

----------------------------------------------------------------------------
(* Constants of the program, in the units above *)

MaxOpenOrders == 3
SignalEvery == 5
Lookback == 28
ConfidenceThreshold == 60
ChangeThreshold == 10
PipStd == 2
PipJpy == 200
JpyThreshold == 200000
PipValue == 10
ContractSize == 100000
DefaultLeverage == 100
DefaultLotSize == 1
DefaultSpreadPips == 2
TfMinutes == 60

\* Optional[...]: None, or a value
NoneVal == <<>>
Some(v) == <<v>>

\* The timeframe and the model of the runs explored
Timeframe == "H1"
ModelType == "cnn"

BUY == "BUY"
SELL == "SELL"

\* What model_manager.predict does: it raises, or returns a forecast
Raised == [raised |-> TRUE]
Forecast(change, conf) == [raised |-> FALSE, price_change |-> change, confidence |-> conf]
Predictions ==
    {Raised} \cup {Forecast(ch, cf) : ch \in {-20, -10, 10, 20}, cf \in {55, 60}}

\* base_prices.get(currency_pair, 1.0)
base_price(pair) ==
    CASE pair = "EURUSD" -> 21700
      [] pair = "USDJPY" -> 2990000
      [] OTHER -> 20000

----------------------------------------------------------------------------
(* Pricing / pip conversion *)

pip_unit(reference_price) ==
    IF reference_price > JpyThreshold THEN PipJpy ELSE PipStd

\* pips in whole pips -> price difference in ticks
pips_to_price(pips, reference_price) == pips * pip_unit(reference_price)

\* Variant: every pair is converted with the pip of the non-JPY pairs
price_to_pips_one_scale(price_diff, reference_price) == (price_diff * 2) \div PipStd

\* price difference in ticks -> pips in half pips
price_to_pips(price_diff, reference_price) ==
    (price_diff * 2) \div pip_unit(reference_price)

\* (lot_size * 100000) / leverage, in money units
calculate_margin(order) == (order.lot_size * ContractSize) \div (5 * sim.leverage)

----------------------------------------------------------------------------
(* Price series *)

Timestamp(n) == n * TfMinutes

\* The prices of the pair whose distance from its base price is in pips
Grid(pair, pips) ==
    {base_price(pair) + k * pip_unit(base_price(pair)) : k \in pips}

\* The price series explored.  A volatile series closes at most 1 pip from the
\* base price, with highs and lows at most 2 pips from it; a calm series
\* closes at the base price, with highs and lows at most 1 pip from it.
Markets ==
    {[max_bars |-> MaxBars, closes |-> {-1, 0, 1}, range |-> {-2, -1, 0, 1, 2}],
     [max_bars |-> CalmBars, closes |-> {0}, range |-> {-1, 0, 1}]}

Max(a, b) == IF a >= b THEN a ELSE b
Min(a, b) == IF a <= b THEN a ELSE b

\* The bars _generate_price_data can append after a bar that closed at prev:
\* open = prev, close = prev * (1 + change), high = max(open, close) * (1 + volatility),
\* low = min(open, close) * (1 - volatility); on the grid, volatility moves high
\* and low by the same number of pips.
NextBars(pair, mkt, prev, n) ==
    {bar \in [timestamp : {Timestamp(n)}, open : {prev},
              high : Grid(pair, mkt.range), low : Grid(pair, mkt.range),
              close : Grid(pair, mkt.closes)] :
        /\ bar.high >= Max(bar.open, bar.close)
        /\ bar.high - Max(bar.open, bar.close) = Min(bar.open, bar.close) - bar.low}

----------------------------------------------------------------------------
(* Signal generator *)

Signal(type, conf, change) ==
    [type |-> type, confidence |-> conf, predicted_change |-> change]

Abs(x) == IF x < 0 THEN 0 - x ELSE x

\* Variant: the error of the signal source is not caught
signal_error_propagates_uncaught(res) == res.raised

\* Whether an error of the signal source leaves _generate_signal
\* (it does not: except Exception: pass).
signal_error_propagates(res) == FALSE

\* Variant: the confidence threshold is not applied
generate_signal_any_confidence(res) ==
    IF res.raised THEN NoneVal
    ELSE IF res.price_change > ChangeThreshold
        THEN <<[type |-> BUY, confidence |-> res.confidence,
                predicted_change |-> res.price_change]>>
    ELSE IF res.price_change < 0 - ChangeThreshold
        THEN <<[type |-> SELL, confidence |-> res.confidence,
                predicted_change |-> 0 - res.price_change]>>
    ELSE NoneVal

\* lookback_data = np.array([p["close"] for p in prices[i-28:i]]), on a bar
\* i > 28.  The series behind the bar is not kept: of the window, its length
\* and its last element are, the close of bar i - 1, which bar i opens at.
lookback_data(bar) == [length |-> Lookback, last |-> bar.open]

\* The arguments _generate_signal calls model_manager.predict with;
\* lookback_periods is left to its default
predict_request(model_type, currency_pair, timeframe, lookback) ==
    [model_type |-> model_type, currency_pair |-> currency_pair, timeframe |-> timeframe,
     lookback_periods |-> Lookback]

\* _generate_signal, given what model_manager.predict did
generate_signal(res) ==
    IF res.raised THEN NoneVal
    ELSE IF res.confidence < ConfidenceThreshold THEN NoneVal
    ELSE IF res.price_change > ChangeThreshold
        THEN Some(Signal(BUY, res.confidence, res.price_change))
    ELSE IF res.price_change < 0 - ChangeThreshold
        THEN Some(Signal(SELL, res.confidence, Abs(res.price_change)))
    ELSE NoneVal

\* Variant: no warm-up
signal_bar_no_warmup(n) == n % SignalEvery = 0

\* The condition of run_backtest under which bar n asks for a signal
signal_bar(n) == n % SignalEvery = 0 /\ n > Lookback

\* Variant: the capacity test is off by one
may_open_off_by_one(sig, st) == sig # NoneVal /\ Len(st.open_orders) <= MaxOpenOrders

\* The condition of run_backtest under which a signal opens an order
may_open(sig, st) == sig # NoneVal /\ Len(st.open_orders) < MaxOpenOrders

----------------------------------------------------------------------------
(* Order lifecycle *)

Order(type, entry_price, entry_time, lot_size, take_profit, stop_loss) ==
    [order_type |-> type, entry_price |-> entry_price, entry_time |-> entry_time,
     lot_size |-> lot_size, take_profit |-> take_profit, stop_loss |-> stop_loss,
     exit_price |-> NoneVal, exit_time |-> NoneVal,
     profit_loss |-> 0, profit_pips |-> 0, is_closed |-> FALSE]

\* The order _open_order builds
new_order(sig, bar) ==
    LET close == bar.close
        atr == bar.high - bar.low
        tp_distance == atr * 2 * sim.risk_factor
        sl_distance == (atr * 3 * sim.risk_factor) \div 2
    IN  IF sig.type = BUY
        THEN Order(BUY, close + pips_to_price(sim.spread_pips, close), bar.timestamp,
                   sim.lot_size, close + tp_distance, close - sl_distance)
        ELSE Order(SELL, close, bar.timestamp,
                   sim.lot_size, close - tp_distance, close + sl_distance)

\* Variant: the margin of the new order is taken out of the balance
open_order_pays_margin(st, sig, bar) ==
    LET order == new_order(sig, bar)
    IN  [st EXCEPT !.open_orders = Append(@, order),
                   !.margin_used = @ + calculate_margin(order),
                   !.balance = @ - calculate_margin(order)]

open_order(st, sig, bar) ==
    LET order == new_order(sig, bar)
    IN  [st EXCEPT !.open_orders = Append(@, order),
                   !.margin_used = @ + calculate_margin(order)]

\* Variant: the exit time is not recorded
close_order_no_exit_time(order, exit_price, exit_time) ==
    [order EXCEPT !.exit_price = <<exit_price>>, !.is_closed = TRUE]

close_order(order, exit_price, exit_time) ==
    LET pip_diff ==
            IF order.order_type = BUY
            THEN price_to_pips(exit_price - order.entry_price, order.entry_price)
            ELSE price_to_pips(order.entry_price - exit_price, order.entry_price)
    IN  [order EXCEPT !.exit_price = Some(exit_price),
                      !.exit_time = Some(exit_time),
                      !.is_closed = TRUE,
                      !.profit_pips = pip_diff,
                      !.profit_loss = (pip_diff * order.lot_size * PipValue) \div 10]

\* Variant: the stop loss is tested first
exit_level_stop_first(order, bar) ==
    IF order.order_type = BUY
    THEN IF bar.low <= order.stop_loss THEN <<order.stop_loss>>
         ELSE IF bar.high >= order.take_profit THEN <<order.take_profit>>
         ELSE <<>>
    ELSE IF bar.high >= order.stop_loss THEN <<order.stop_loss>>
         ELSE IF bar.low <= order.take_profit THEN <<order.take_profit>>
         ELSE <<>>

\* The exit price the first loop of _check_orders finds for an order, if any
exit_level(order, bar) ==
    IF order.order_type = BUY
    THEN IF bar.high >= order.take_profit THEN Some(order.take_profit)
         ELSE IF bar.low <= order.stop_loss THEN Some(order.stop_loss)
         ELSE NoneVal
    ELSE IF bar.low <= order.take_profit THEN Some(order.take_profit)
         ELSE IF bar.high >= order.stop_loss THEN Some(order.stop_loss)
         ELSE NoneVal

\* if should_close and exit_price: a price of 0 is falsy
should_close(order, bar) ==
    exit_level(order, bar) # NoneVal /\ exit_level(order, bar)[1] # 0

\* Fractions <<num, den>> with den > 0
FracLess(a, b) == a[1] * b[2] < b[1] * a[2]
FracEq(a, b) == a[1] * b[2] = b[1] * a[2]

\* Variant: the drawdown of the last close replaces the worst one
realize_last_drawdown(st, order) ==
    LET balance == st.balance + order.profit_loss
        max_balance == IF balance > st.max_balance THEN balance ELSE st.max_balance
    IN  [st EXCEPT !.closed_orders = Append(@, order),
                   !.balance = balance,
                   !.margin_used = @ - calculate_margin(order),
                   !.max_balance = max_balance,
                   !.max_drawdown = <<max_balance - balance, max_balance>>]

\* Variant: the closed order is put at the head of closed_orders
realize_prepends(st, order) ==
    LET balance == st.balance + order.profit_loss
        max_balance == IF balance > st.max_balance THEN balance ELSE st.max_balance
        drawdown == <<max_balance - balance, max_balance>>
    IN  [st EXCEPT !.closed_orders = <<order>> \o @,
                   !.balance = balance,
                   !.margin_used = @ - calculate_margin(order),
                   !.max_balance = max_balance,
                   !.max_drawdown = IF FracLess(@, drawdown) THEN drawdown ELSE @]

\* The body of the second loop of _check_orders for one closed order
realize(st, order) ==
    LET balance == st.balance + order.profit_loss
        max_balance == IF balance > st.max_balance THEN balance ELSE st.max_balance
        drawdown == <<max_balance - balance, max_balance>>
    IN  [st EXCEPT !.closed_orders = Append(@, order),
                   !.balance = balance,
                   !.margin_used = @ - calculate_margin(order),
                   !.max_balance = max_balance,
                   !.max_drawdown = IF FracLess(@, drawdown) THEN drawdown ELSE @]

\* The states the second loop of _check_orders passes through, one per
\* order of to_close
RECURSIVE realize_trail(_, _)
realize_trail(st, to_close) ==
    IF to_close = <<>> THEN <<>>
    ELSE LET next == realize(st, Head(to_close))
         IN  <<next>> \o realize_trail(next, Tail(to_close))

\* The orders the first loop of _check_orders closes, closed
to_close(st, bar) ==
    LET closing(o) == should_close(o, bar)
        hit == SelectSeq(st.open_orders, closing)
    IN  [k \in 1..Len(hit) |-> close_order(hit[k], exit_level(hit[k], bar)[1], bar.timestamp)]

\* Variant: a closed order is left among the open ones
remove_closed_keeps(st, bar) == st

\* state.open_orders.remove(order) for every order of to_close
remove_closed(st, bar) ==
    LET staying(o) == ~should_close(o, bar)
    IN  [st EXCEPT !.open_orders = SelectSeq(@, staying)]

check_trail(st, bar) == realize_trail(remove_closed(st, bar), to_close(st, bar))

check_orders(st, bar) ==
    LET trail == check_trail(st, bar)
    IN  IF trail = <<>> THEN st ELSE trail[Len(trail)]

RECURSIVE unrealized(_, _)
unrealized(orders, current_price) ==
    IF orders = <<>> THEN 0
    ELSE LET order == Head(orders)
             pips == IF order.order_type = BUY
                     THEN price_to_pips(current_price - order.entry_price, order.entry_price)
                     ELSE price_to_pips(order.entry_price - current_price, order.entry_price)
         IN  (pips * order.lot_size * PipValue) \div 10
                 + unrealized(Tail(orders), current_price)

\* Variant: the open orders are left out of the equity
update_equity_realized_only(st, current_price) == [st EXCEPT !.equity = st.balance]

update_equity(st, current_price) ==
    [st EXCEPT !.equity = st.balance + unrealized(st.open_orders, current_price)]

\* Variant: the remaining orders are closed at the open of the series
flush_at_base(st, last) ==
    [st EXCEPT !.closed_orders =
                    @ \o [k \in 1..Len(st.open_orders) |->
                            close_order(st.open_orders[k], base_price(run.currency_pair),
                                        last[1].timestamp)],
               !.open_orders = <<>>]

\* Variant: the orders already closed are closed again, at the last bar
flush_recloses(st, last) ==
    LET all == st.closed_orders \o st.open_orders
    IN  [st EXCEPT !.closed_orders =
                        [k \in 1..Len(all) |->
                            close_order(all[k], last[1].close, last[1].timestamp)],
                   !.open_orders = <<>>]

\* Variant: the orders still open are dropped
flush_drops_open(st, last) == [st EXCEPT !.open_orders = <<>>]

\* The loop after the bars: close what is still open, at the last bar
flush(st, last) ==
    LET closed(o) == close_order(o, last[1].close, last[1].timestamp)
    IN  [st EXCEPT !.closed_orders =
                        @ \o [k \in 1..Len(st.open_orders) |-> closed(st.open_orders[k])],
                   !.open_orders = <<>>]

----------------------------------------------------------------------------
(* Results compiler *)

RECURSIVE SumPL(_)
SumPL(orders) ==
    IF orders = <<>> THEN 0 ELSE Head(orders).profit_loss + SumPL(Tail(orders))

RECURSIVE SumSquares(_)
SumSquares(orders) ==
    IF orders = <<>> THEN 0
    ELSE Head(orders).profit_loss * Head(orders).profit_loss + SumSquares(Tail(orders))

\* n * n times the variance of the profit_loss of the orders (n of them)
ScaledVariance(orders) ==
    Len(orders) * SumSquares(orders) - SumPL(orders) * SumPL(orders)

\* np.std(returns) > 0, in floats.  np.std subtracts np.mean(returns), a sum
\* divided by n.  If the returns differ, it is positive.  If they are all
\* equal to v, it is 0 when the mean is exactly v: always for n = 2 and n = 4
\* (the partial sums 2v and 4v are exact, and 3v + v rounds to 4v) and for
\* v = 0; for any other n the sum can be rounded, the mean then misses v and
\* np.std is a positive rounding error (np.std([0.1, 0.1, 0.1]) is 1.4e-17).
std_is_positive(orders) ==
    IF ScaledVariance(orders) > 0 THEN {TRUE}
    ELSE IF Len(orders) \in {0, 1, 2, 4} \/ orders[1].profit_loss = 0 THEN {FALSE}
    ELSE {FALSE, TRUE}

Sign(x) == IF x > 0 THEN 1 ELSE IF x < 0 THEN 0 - 1 ELSE 0

\* (np.mean(returns) / np.std(returns)) * np.sqrt(252), kept as its sign and
\* its square 252 * sum^2 / (n * sum of squares - sum^2).  A denominator of 0
\* stands for the square of a rounding error: the ratio is of the order of 1e16.
NoSharpe == [sign |-> 0, square |-> <<0, 1>>]
sharpe_ratio(orders, std_positive) ==
    IF Len(orders) > 1
    THEN IF std_positive
         THEN [sign |-> Sign(SumPL(orders)),
               square |-> <<252 * SumPL(orders) * SumPL(orders), ScaledVariance(orders)>>]
         ELSE NoSharpe
    ELSE NoSharpe

\* Variant: a trade with profit_loss = 0 is not counted as losing
lost_below_zero(order) == order.profit_loss < 0

won(order) == order.profit_loss > 0
lost(order) == order.profit_loss <= 0

\* std_positive: what np.std(returns) > 0 evaluates to (see std_is_positive)
compile_results(st, std_positive) ==
    LET total_trades == Len(st.closed_orders)
        winning_trades == Len(SelectSeq(st.closed_orders, won))
        losing_trades == Len(SelectSeq(st.closed_orders, lost))
    IN  [currency_pair |-> run.currency_pair,
         initial_balance |-> sim.initial_balance,
         final_balance |-> st.balance,
         total_trades |-> total_trades,
         winning_trades |-> winning_trades,
         losing_trades |-> losing_trades,
         total_profit_loss |-> SumPL(st.closed_orders),
         win_rate |-> IF total_trades > 0 THEN <<winning_trades, total_trades>>
                      ELSE <<0, 1>>,
         max_drawdown |-> st.max_drawdown,
         sharpe_ratio |-> sharpe_ratio(st.closed_orders, std_positive),
         trades |-> [k \in 1..Len(st.closed_orders) |->
                        [type |-> st.closed_orders[k].order_type,
                         entry_price |-> st.closed_orders[k].entry_price,
                         exit_price |-> st.closed_orders[k].exit_price,
                         entry_time |-> st.closed_orders[k].entry_time,
                         exit_time |-> st.closed_orders[k].exit_time,
                         lot_size |-> st.closed_orders[k].lot_size,
                         take_profit |-> st.closed_orders[k].take_profit,
                         stop_loss |-> st.closed_orders[k].stop_loss,
                         profit_loss |-> st.closed_orders[k].profit_loss,
                         profit_pips |-> st.closed_orders[k].profit_pips]]]

----------------------------------------------------------------------------
(* The run *)

\* Validated configurations (BacktestInput: initial_balance > 0,
\* 0 < risk_factor <= 10) and pairs explored
InitialBalances == {15, 40}
RiskFactors == {1, 2}
Pairs == {"EURUSD", "USDJPY"}

\* A single run is looked at: nothing else happens in the process.  Its price
\* series is any series of Markets, so the generator it is drawn from is left out.
ServerIdle ==
    /\ np_random = NoneVal
    /\ tasks = <<>>
    /\ backtest_runs = <<>>
    /\ exchanges = <<>>

\* The state after lines 99-106, for a price series of one of the markets
Started(markets) ==
    /\ sim \in [initial_balance : InitialBalances, leverage : {DefaultLeverage},
                risk_factor : RiskFactors, lot_size : {DefaultLotSize},
                spread_pips : {DefaultSpreadPips}]
    /\ run \in [currency_pair : Pairs, timeframe : {Timeframe}, model_type : {ModelType}]
    /\ market \in markets
    /\ state = [balance |-> sim.initial_balance, equity |-> sim.initial_balance,
                margin_used |-> 0, open_orders |-> <<>>, closed_orders |-> <<>>,
                max_balance |-> sim.initial_balance, max_drawdown |-> <<0, 1>>]
    /\ i = 0
    /\ price_bar = NoneVal
    /\ last_price = NoneVal
    /\ predict_args = NoneVal
    /\ result = NoneVal
    /\ signal = NoneVal
    /\ balances = <<sim.initial_balance>>
    /\ report = NoneVal
    /\ pc = "loop"
    /\ ServerIdle

Init == Started(Markets)

\* The close the next bar opens at
current_price ==
    IF last_price = NoneVal THEN base_price(run.currency_pair) ELSE last_price[1].close

\* for i, price_bar in enumerate(prices): self._check_orders(state, price_bar)
CheckOrders ==
    /\ pc = "loop"
    /\ i < market.max_bars
    /\ \E bar \in NextBars(run.currency_pair, market, current_price, i) :
        /\ price_bar' = Some(bar)
        /\ last_price' = Some([timestamp |-> bar.timestamp, close |-> bar.close])
        /\ state' = check_orders(state, bar)
        /\ balances' = balances \o
              [k \in 1..Len(check_trail(state, bar)) |-> check_trail(state, bar)[k].balance]
    /\ pc' = "signal"
    /\ UNCHANGED <<sim, run, market, i, predict_args, result, signal, report>>
    /\ UNCHANGED serverVars

\* Variant: the exit check is run again after the open, on the same bar
RequestSignal_then_check ==
    /\ pc = "signal"
    /\ signal_bar(i)
    /\ predict_args' = Some(predict_request(run.model_type, run.currency_pair,
                                             run.timeframe, lookback_data(price_bar[1])))
    /\ \E res \in Predictions :
        /\ result' = Some(res)
        /\ signal' = generate_signal(res)
        /\ state' = IF may_open(signal', state)
                    THEN check_orders(open_order(state, signal'[1], price_bar[1]), price_bar[1])
                    ELSE state
        /\ pc' = "equity"
    /\ UNCHANGED <<sim, run, market, i, price_bar, last_price, balances, report>>
    /\ UNCHANGED serverVars

\* if i % 5 == 0 and i > 28: signal = ...; if signal and len(...) < 3: open
RequestSignal ==
    /\ pc = "signal"
    /\ signal_bar(i)
    /\ predict_args' = Some(predict_request(run.model_type, run.currency_pair,
                                             run.timeframe, lookback_data(price_bar[1])))
    /\ \E res \in Predictions :
        /\ result' = Some(res)
        /\ IF signal_error_propagates(res)
           THEN /\ pc' = "failed"
                /\ UNCHANGED <<signal, state>>
           ELSE /\ signal' = generate_signal(res)
                /\ state' = IF may_open(signal', state)
                            THEN open_order(state, signal'[1], price_bar[1])
                            ELSE state
                /\ pc' = "equity"
    /\ UNCHANGED <<sim, run, market, i, price_bar, last_price, balances, report>>
    /\ UNCHANGED serverVars

SkipSignal ==
    /\ pc = "signal"
    /\ ~signal_bar(i)
    /\ pc' = "equity"
    /\ UNCHANGED <<sim, run, market, state, i, price_bar, last_price, predict_args, result,
                   signal, balances, report>>
    /\ UNCHANGED serverVars

\* Variant: the loop does not advance to the next bar
UpdateEquity_same_bar ==
    /\ pc = "equity"
    /\ state' = update_equity(state, price_bar[1].close)
    /\ price_bar' = NoneVal
    /\ predict_args' = NoneVal
    /\ result' = NoneVal
    /\ signal' = NoneVal
    /\ pc' = "loop"
    /\ UNCHANGED <<sim, run, market, i, last_price, balances, report>>
    /\ UNCHANGED serverVars

\* self._update_equity(state, price_bar["close"]), and on to the next bar
UpdateEquity ==
    /\ pc = "equity"
    /\ state' = update_equity(state, price_bar[1].close)
    /\ i' = i + 1
    /\ price_bar' = NoneVal
    /\ predict_args' = NoneVal
    /\ result' = NoneVal
    /\ signal' = NoneVal
    /\ pc' = "loop"
    /\ UNCHANGED <<sim, run, market, last_price, balances, report>>
    /\ UNCHANGED serverVars

\* The series is exhausted: close any remaining orders
Flush ==
    /\ pc = "loop"
    /\ state' = flush(state, last_price)
    /\ pc' = "compile"
    /\ UNCHANGED <<sim, run, market, i, price_bar, last_price, predict_args, result,
                   signal, balances, report>>
    /\ UNCHANGED serverVars

\* Variant: the compiler consumes the closed orders it reports
Compile_draining ==
    /\ pc = "compile"
    /\ \E std_positive \in std_is_positive(state.closed_orders) :
        report' = Some(compile_results(state, std_positive))
    /\ state' = [state EXCEPT !.closed_orders = <<>>]
    /\ pc' = "done"
    /\ UNCHANGED <<sim, run, market, i, price_bar, last_price, predict_args, result,
                   signal, balances>>
    /\ UNCHANGED serverVars

\* return self._compile_results(...)
Compile ==
    /\ pc = "compile"
    /\ \E std_positive \in std_is_positive(state.closed_orders) :
        report' = Some(compile_results(state, std_positive))
    /\ pc' = "done"
    /\ UNCHANGED <<sim, run, market, state, i, price_bar, last_price, predict_args, result,
                   signal, balances>>
    /\ UNCHANGED serverVars

Next == CheckOrders \/ RequestSignal \/ SkipSignal \/ UpdateEquity \/ Flush \/ Compile

Spec == Init /\ [][Next]_vars

\* The runs of one configuration over a series that closes at the base price
\* with highs and lows up to 3 pips from it: an order opened on a bar with a
\* range of 2 pips is out of reach of the bars with a smaller range, and stopped
\* by one with a range of 6
SwingMarket == [max_bars |-> CalmBars, closes |-> {0}, range |-> {-3, -1, 0, 1, 3}]

SwingInit ==
    /\ Started({SwingMarket})
    /\ sim.initial_balance = 40
    /\ sim.risk_factor = 1
    /\ run.currency_pair = "EURUSD"
    /\ market = SwingMarket

SwingSpec == SwingInit /\ [][Next]_vars

----------------------------------------------------------------------------
(* The order methods called on their own *)

\* _check_orders and _close_order are methods: a caller (a test) hands them a
\* state it built itself.  The orders explored have any of the levels below,
\* the level 0 included; the bars span any two of the bar prices.
UnitPrices(pair) ==
    IF pair = "USDJPY" THEN {2980000, 2990000, 3000000} ELSE {21900, 22000, 22100}

UnitLevels(pair) == {0} \cup UnitPrices(pair)

UnitBarPrices(pair) ==
    UnitPrices(pair) \cup (IF pair = "USDJPY" THEN {2978000, 3002000} ELSE {21980, 22120})

UnitOrders(pair) ==
    {Order(type, entry, Timestamp(0), sim.lot_size, tp, sl) :
        type \in {BUY, SELL}, entry \in UnitPrices(pair),
        tp \in UnitLevels(pair), sl \in UnitLevels(pair)}

UnitBars(pair) ==
    {bar \in [timestamp : {Timestamp(1)}, open : UnitBarPrices(pair),
              high : UnitBarPrices(pair), low : UnitBarPrices(pair),
              close : UnitBarPrices(pair)] :
        bar.open = bar.low /\ bar.close = bar.high /\ bar.low <= bar.high}

UnitInit ==
    /\ sim = [initial_balance |-> 200000, leverage |-> DefaultLeverage, risk_factor |-> 1,
              lot_size |-> DefaultLotSize, spread_pips |-> DefaultSpreadPips]
    /\ run \in [currency_pair : Pairs, timeframe : {Timeframe}, model_type : {ModelType}]
    /\ market = [max_bars |-> 0, closes |-> {}, range |-> {}]
    /\ \E order \in UnitOrders(run.currency_pair) :
          state = [balance |-> sim.initial_balance, equity |-> sim.initial_balance,
                   margin_used |-> calculate_margin(order), open_orders |-> <<order>>,
                   closed_orders |-> <<>>, max_balance |-> sim.initial_balance,
                   max_drawdown |-> <<0, 1>>]
    /\ i = 0
    /\ price_bar = NoneVal
    /\ last_price = NoneVal
    /\ predict_args = NoneVal
    /\ result = NoneVal
    /\ signal = NoneVal
    /\ balances = <<sim.initial_balance>>
    /\ report = NoneVal
    /\ pc = "built"
    /\ ServerIdle

\* self._check_orders(state, price_bar)
UnitCheckOrders ==
    /\ pc = "built"
    /\ \E bar \in UnitBars(run.currency_pair) :
        /\ price_bar' = Some(bar)
        /\ state' = check_orders(state, bar)
    /\ pc' = "checked"
    /\ UNCHANGED <<sim, run, market, i, last_price, predict_args, result, signal, balances,
                   report>>
    /\ UNCHANGED serverVars

\* self._close_order(order, exit_price, exit_time): the order is closed in place
UnitCloseOrder ==
    /\ pc = "built"
    /\ \E exit_price \in UnitLevels(run.currency_pair) :
        state' = [state EXCEPT !.open_orders[1] = close_order(@, exit_price, Timestamp(1))]
    /\ pc' = "closed"
    /\ UNCHANGED <<sim, run, market, i, price_bar, last_price, predict_args, result,
                   signal, balances, report>>
    /\ UNCHANGED serverVars

UnitNext == UnitCheckOrders \/ UnitCloseOrder

UnitSpec == UnitInit /\ [][UnitNext]_vars

----------------------------------------------------------------------------
(* Two runs in one process *)

\* The bars each run generates and the signals it requests, in ConcSpec
NumBars == 2
SignalCalls == 1

\* No run of its own is looked at
RunIdle ==
    /\ sim = [initial_balance |-> 200000, leverage |-> DefaultLeverage, risk_factor |-> 1,
              lot_size |-> DefaultLotSize, spread_pips |-> DefaultSpreadPips]
    /\ run = [currency_pair |-> "EURUSD", timeframe |-> Timeframe, model_type |-> ModelType]
    /\ market = [max_bars |-> 0, closes |-> {}, range |-> {}]
    /\ state = [balance |-> sim.initial_balance, equity |-> sim.initial_balance,
                margin_used |-> 0, open_orders |-> <<>>, closed_orders |-> <<>>,
                max_balance |-> sim.initial_balance, max_drawdown |-> <<0, 1>>]
    /\ i = 0
    /\ price_bar = NoneVal
    /\ last_price = NoneVal
    /\ predict_args = NoneVal
    /\ result = NoneVal
    /\ signal = NoneVal
    /\ balances = <<sim.initial_balance>>
    /\ report = NoneVal
    /\ pc = "idle"

\* hash(f"{currency_pair}{start_date}") % 2**32 and hash(currency_pair + timeframe) % 2**32
PriceSeed(pair) == <<"prices", pair>>
DataSeed(pair) == <<"data", pair>>

\* np.random.seed(seed): the generator restarts the sequence of the seed
Seeded(seed) == [seed |-> seed, drawn |-> 0]

\* What the generator yields next (np.random.normal, randint, uniform): the
\* value at its position in the sequence of its seed
Draw(generator) == [seed |-> generator.seed, index |-> generator.drawn]
Advance(generator) == [generator EXCEPT !.drawn = @ + 1]

\* A run that has just been called
Task(pair) == [currency_pair |-> pair, pc |-> "seed", prices |-> <<>>, forecasts |-> <<>>]

ConcInit ==
    /\ RunIdle
    /\ np_random = NoneVal
    /\ tasks \in [1..2 -> {Task(pair) : pair \in Pairs}]
    /\ backtest_runs = <<>>
    /\ exchanges = <<>>

\* _generate_price_data: np.random.seed(hash(f"{currency_pair}{start_date}") % 2**32)
SeedPrices(t) ==
    /\ tasks[t].pc = "seed"
    /\ np_random' = Some(Seeded(PriceSeed(tasks[t].currency_pair)))
    /\ tasks' = [tasks EXCEPT ![t].pc = IF NumBars = 0 THEN "loop" ELSE "bars"]
    /\ UNCHANGED <<runVars, backtest_runs, exchanges>>

\* _generate_price_data: one turn of for _ in range(num_bars)
DrawBar(t) ==
    /\ tasks[t].pc = "bars"
    /\ np_random' = Some(Advance(np_random[1]))
    /\ tasks' = [tasks EXCEPT
                    ![t].prices = Append(@, Draw(np_random[1])),
                    ![t].pc = IF Len(tasks[t].prices) + 1 = NumBars THEN "loop" ELSE "bars"]
    /\ UNCHANGED <<runVars, backtest_runs, exchanges>>

\* model_manager.predict, _get_market_data: np.random.seed(hash(currency_pair + timeframe) % 2**32)
SeedData(t) ==
    /\ tasks[t].pc = "loop"
    /\ Len(tasks[t].forecasts) < SignalCalls
    /\ np_random' = Some(Seeded(DataSeed(tasks[t].currency_pair)))
    /\ tasks' = [tasks EXCEPT ![t].pc = "data"]
    /\ UNCHANGED <<runVars, backtest_runs, exchanges>>

\* model_manager.predict: the data and the confidence are drawn
DrawForecast(t) ==
    /\ tasks[t].pc = "data"
    /\ np_random' = Some(Advance(np_random[1]))
    /\ tasks' = [tasks EXCEPT ![t].forecasts = Append(@, Draw(np_random[1])),
                              ![t].pc = "loop"]
    /\ UNCHANGED <<runVars, backtest_runs, exchanges>>

\* return self._compile_results(...)
Return(t) ==
    /\ tasks[t].pc = "loop"
    /\ Len(tasks[t].forecasts) = SignalCalls
    /\ tasks' = [tasks EXCEPT ![t].pc = "done"]
    /\ UNCHANGED <<runVars, np_random, backtest_runs, exchanges>>

ConcNext ==
    \/ \E t \in DOMAIN tasks : SeedPrices(t)
    \/ \E t \in DOMAIN tasks : DrawBar(t)
    \/ \E t \in DOMAIN tasks : SeedData(t)
    \/ \E t \in DOMAIN tasks : DrawForecast(t)
    \/ \E t \in DOMAIN tasks : Return(t)

ConcSpec == ConcInit /\ [][ConcNext]_vars

----------------------------------------------------------------------------
(* The backtest routes of the API *)

\* The requests explored in one behaviour of ApiSpec
MaxRequests == 4

\* The ids uuid4 can give a row, and the ids a client can ask for
BacktestIds == {"run-a", "run-b"}
AskedIds == BacktestIds \cup {"nonexistent-id"}

\* The bodies POSTed: the pair in either case, a balance that passes
\* BacktestInput (gt=0) or not
PostedInputs == [currency_pair : {"USDJPY", "eurusd"}, initial_balance : {0, 200000}]

\* str.upper()
upper(pair) ==
    CASE pair = "eurusd" -> "EURUSD"
      [] pair = "usdjpy" -> "USDJPY"
      [] OTHER -> pair

\* BacktestInput validation
valid_input(input) == input.initial_balance > 0

\* BacktestRun(...), with the id its default gives it
BacktestRun(id, input) ==
    [id |-> id, currency_pair |-> upper(input.currency_pair),
     initial_balance |-> input.initial_balance]

\* BacktestResult(backtest_id=b.id, currency_pair=b.currency_pair, ...)
BacktestResult(row) ==
    [backtest_id |-> row.id, currency_pair |-> row.currency_pair,
     initial_balance |-> row.initial_balance]

\* Variant: the row created last is selected, whatever the id asked for
select_run_latest(rows, backtest_id) ==
    IF rows = <<>> THEN NoneVal ELSE Some(rows[Len(rows)])

\* select(BacktestRun).where(BacktestRun.id == backtest_id), scalar_one_or_none()
select_run(rows, backtest_id) ==
    LET found == SelectSeq(rows, LAMBDA row : row.id = backtest_id)
    IN  IF found = <<>> THEN NoneVal ELSE Some(found[1])

\* select(BacktestRun).order_by(BacktestRun.created_at.desc()): newest first
select_all(rows) == [k \in 1..Len(rows) |-> rows[Len(rows) + 1 - k]]

Exchange(request, status, body) ==
    [request |-> request, status |-> status, body |-> body]

ApiInit ==
    /\ RunIdle
    /\ np_random = NoneVal
    /\ tasks = <<>>
    /\ backtest_runs = <<>>
    /\ exchanges = <<>>

\* POST /api/backtest: validate, run the simulation, store the run, answer
PostBacktest ==
    /\ Len(exchanges) < MaxRequests
    /\ \E input \in PostedInputs :
        LET request == [method |-> "POST", body |-> input]
        IN  IF valid_input(input)
            THEN \E id \in BacktestIds \ {backtest_runs[k].id : k \in 1..Len(backtest_runs)} :
                    /\ backtest_runs' = Append(backtest_runs, BacktestRun(id, input))
                    /\ exchanges' = Append(exchanges,
                          Exchange(request, 200, BacktestResult(BacktestRun(id, input))))
            ELSE /\ exchanges' = Append(exchanges, Exchange(request, 422, NoneVal))
                 /\ UNCHANGED backtest_runs
    /\ UNCHANGED <<runVars, np_random, tasks>>

\* GET /api/backtest/{backtest_id}
GetBacktest ==
    /\ Len(exchanges) < MaxRequests
    /\ \E backtest_id \in AskedIds :
        LET request == [method |-> "GET", backtest_id |-> backtest_id]
            backtest == select_run(backtest_runs, backtest_id)
        IN  exchanges' = Append(exchanges,
                IF backtest = NoneVal THEN Exchange(request, 404, NoneVal)
                ELSE Exchange(request, 200, BacktestResult(backtest[1])))
    /\ UNCHANGED <<runVars, np_random, tasks, backtest_runs>>

\* GET /api/backtest
ListBacktests ==
    /\ Len(exchanges) < MaxRequests
    /\ LET request == [method |-> "LIST"]
           backtests == select_all(backtest_runs)
       IN  exchanges' = Append(exchanges,
              Exchange(request, 200,
                       [k \in 1..Len(backtests) |-> BacktestResult(backtests[k])]))
    /\ UNCHANGED <<runVars, np_random, tasks, backtest_runs>>

ApiNext == PostBacktest \/ GetBacktest \/ ListBacktests

ApiSpec == ApiInit /\ [][ApiNext]_vars

----------------------------------------------------------------------------
(* Properties *)

Range(seq) == {seq[k] : k \in 1..Len(seq)}
Orders == Range(state.open_orders) \cup Range(state.closed_orders)

\* The number of bars the loop has entered so far
BarsEntered == IF pc \in {"signal", "equity", "failed"} THEN i + 1 ELSE i

\* The fixed-point units lose nothing: every level is a whole number of
\* half pips away from the entry price.
ExactUnits ==
    \A o \in Orders :
        /\ ((o.take_profit - o.entry_price) * 2) % pip_unit(o.entry_price) = 0
        /\ ((o.stop_loss - o.entry_price) * 2) % pip_unit(o.entry_price) = 0
        /\ pip_unit(o.entry_price) = pip_unit(base_price(run.currency_pair))

\* C1: in every state of run_backtest (after the exit checks, after an open,
\* after the equity mark) at most 3 orders are open; an order is opened only
\* when fewer than 3 are open, or a fourth would be open after it.
C1_AtMostThreeOpen == Len(state.open_orders) <= 3

\* A signal arrives while 3 orders are open, and opens nothing.
C1_Witness ==
    /\ pc = "equity"
    /\ signal # NoneVal
    /\ Len(state.open_orders) = 3
    /\ \A o \in Orders : o.entry_time # price_bar[1].timestamp

\* C2: after the end-of-run flush, the orders it closed have gone through the
\* accounting of a normal exit: their profit_loss is in balance, their margin
\* is released, and max_balance and max_drawdown cover the resulting balance.
C2_EndOfRunAccounting ==
    pc \in {"compile", "done"} =>
        /\ state.balance = sim.initial_balance + SumPL(state.closed_orders)
        /\ state.margin_used = 0
        /\ state.max_balance >= state.balance
        /\ ~FracLess(state.max_drawdown,
                     <<state.max_balance - state.balance, state.max_balance>>)

\* C3: the flush empties open_orders and appends every order that was open
\* after the last bar to closed_orders, closed at the close and the timestamp
\* of the final bar; at DONE no order is open.
C3_EndOfRunFlush ==
    /\ [](pc = "done" => state.open_orders = <<>>)
    /\ [][(pc = "loop" /\ pc' = "compile") =>
            /\ state'.open_orders = <<>>
            /\ Len(state'.closed_orders) =
                   Len(state.closed_orders) + Len(state.open_orders)
            /\ \A k \in 1..Len(state.open_orders) :
                 LET o == state.open_orders[k]
                     c == state'.closed_orders[Len(state.closed_orders) + k]
                 IN  /\ c.order_type = o.order_type
                     /\ c.entry_price = o.entry_price
                     /\ c.entry_time = o.entry_time
                     /\ c.exit_price = <<last_price[1].close>>
                     /\ c.exit_time = <<Timestamp(i - 1)>>
                     /\ c.is_closed]_vars

\* The run is DONE and its ledger holds an order the flush closed, at a
\* price that is neither of its levels.
C3_Witness ==
    /\ pc = "done"
    /\ \E c \in Range(state.closed_orders) :
        /\ c.exit_time = <<Timestamp(i - 1)>>
        /\ c.exit_price = <<last_price[1].close>>
        /\ c.exit_price # <<c.take_profit>>
        /\ c.exit_price # <<c.stop_loss>>

\* Whether the bar reaches both levels of the order
SpansBoth(o, bar) ==
    IF o.order_type = "BUY"
    THEN bar.high >= o.take_profit /\ bar.low <= o.stop_loss
    ELSE bar.low <= o.take_profit /\ bar.high >= o.stop_loss

\* C4: after the exit check of a bar, every order that was open and whose
\* take_profit and stop_loss are both within the bar has been closed on this
\* bar at take_profit (BUY: high >= take_profit and low <= stop_loss; SELL:
\* low <= take_profit and high >= stop_loss).
C4_TakeProfitFirst ==
    price_bar # NoneVal =>
        /\ \A o \in Range(state.open_orders) :
              o.entry_time < price_bar[1].timestamp => ~SpansBoth(o, price_bar[1])
        /\ \A c \in Range(state.closed_orders) :
              (c.exit_time = <<price_bar[1].timestamp>> /\ SpansBoth(c, price_bar[1]))
                  => c.exit_price = <<c.take_profit>>

\* A BUY order with distinct levels was closed on a bar that reaches both.
C4_Witness ==
    /\ pc = "signal"
    /\ \E c \in Range(state.closed_orders) :
        /\ c.order_type = "BUY"
        /\ c.take_profit # c.stop_loss
        /\ c.exit_time = <<price_bar[1].timestamp>>
        /\ SpansBoth(c, price_bar[1])

\* C5: max_drawdown is within [0, 1] in every state of a run whose
\* initial_balance is positive.
C5_DrawdownInUnitInterval ==
    /\ 0 <= state.max_drawdown[1]
    /\ state.max_drawdown[1] <= state.max_drawdown[2]

\* The running maxima of the balances taken so far, and the worst relative
\* decline from them
RECURSIVE HighWater(_)
HighWater(bs) ==
    IF Len(bs) = 1 THEN bs[1]
    ELSE Max(HighWater(SubSeq(bs, 1, Len(bs) - 1)), bs[Len(bs)])

RECURSIVE WorstDecline(_)
WorstDecline(bs) ==
    LET here == <<HighWater(bs) - bs[Len(bs)], HighWater(bs)>>
    IN  IF Len(bs) = 1 THEN here
        ELSE LET before == WorstDecline(SubSeq(bs, 1, Len(bs) - 1))
             IN  IF FracLess(before, here) THEN here ELSE before

\* C6: max_balance is the greatest balance taken so far, and max_drawdown is
\* the greatest, over the balances taken so far (one per close the exit check
\* accounts, several of one bar included), of
\* (max_balance_seen - balance) / max_balance_seen.
C6_DrawdownIsWorstDecline ==
    /\ state.balance = balances[Len(balances)]
    /\ state.max_balance = HighWater(balances)
    /\ FracEq(state.max_drawdown, WorstDecline(balances))

\* Two orders were closed by the exit check of one bar, and the last balance
\* is neither the highest nor the lowest so far.
C6_Witness ==
    /\ Len(balances) >= 3
    /\ \E a, b \in Range(state.closed_orders) :
          a.entry_time # b.entry_time /\ a.exit_time = b.exit_time
    /\ state.balance < state.max_balance
    /\ FracLess(<<state.max_balance - state.balance, state.max_balance>>,
                state.max_drawdown)

\* C7: exit_price and exit_time of an order are set if and only if it is
\* closed; the orders of open_orders are not closed and those of
\* closed_orders are.
C7_ExitFieldsIffClosed ==
    /\ \A o \in Orders :
          /\ (o.exit_price # NoneVal) <=> o.is_closed
          /\ (o.exit_time # NoneVal) <=> o.is_closed
    /\ \A o \in Range(state.open_orders) : ~o.is_closed
    /\ \A c \in Range(state.closed_orders) : c.is_closed

\* An order is open while another has been closed.
C7_Witness ==
    /\ state.open_orders # <<>>
    /\ state.closed_orders # <<>>

\* C8: on a bar where the signal source returned a forecast, the signal is
\* none if confidence < 0.6; else BUY with magnitude predicted_change if
\* predicted_change > 0.001, SELL with magnitude |predicted_change| if
\* predicted_change < -0.001, none in between; and a forecast of confidence
\* below 0.6 opens no order on that bar.
C8_SignalDecisionTable ==
    (pc = "equity" /\ result # NoneVal /\ ~result[1].raised) =>
        LET change == result[1].price_change
            confidence == result[1].confidence
        IN  /\ confidence < 60 => signal = NoneVal
            /\ (confidence >= 60 /\ change > 10) =>
                  /\ signal # NoneVal
                  /\ signal[1].type = "BUY"
                  /\ signal[1].predicted_change = change
            /\ (confidence >= 60 /\ change < -10) =>
                  /\ signal # NoneVal
                  /\ signal[1].type = "SELL"
                  /\ signal[1].predicted_change = 0 - change
            /\ (confidence >= 60 /\ change >= -10 /\ change <= 10) => signal = NoneVal
            /\ confidence < 60 =>
                  \A o \in Orders : o.entry_time # price_bar[1].timestamp

\* A forecast of confidence 0.55 and predicted_change 0.002 arrived while
\* there was room for an order.
C8_Witness ==
    /\ pc = "equity"
    /\ result = <<Forecast(20, 55)>>
    /\ Len(state.open_orders) < 3

\* C9: when the signal source raises on a signal bar, the bar has no signal,
\* the signal step leaves the SimulationState as it was and goes on to the
\* equity mark; the run never aborts, and every state short of DONE has a
\* next step.
C9_SignalErrorSwallowed ==
    /\ [][(pc = "signal" /\ result' = <<Raised>>) =>
            (signal' = NoneVal /\ state' = state /\ pc' = "equity")]_vars
    /\ [](pc \in {"loop", "signal", "equity", "compile", "done"})
    /\ [](pc = "done" \/ ENABLED Next)
    /\ [](pc = "done" => report # NoneVal)

\* The signal source raised on a bar that began with an order open.
C9_Witness == pc = "equity" /\ result = <<Raised>> /\ state.open_orders # <<>>

\* C10: a signal is requested on bar i exactly when i is a multiple of 5 and
\* at least 28 bars precede it; no bar opens more than one order; and while
\* fewer than 28 bars have been entered, no signal has been requested and no
\* order opened.
C10_WarmUpAndCadence ==
    /\ pc = "equity" => ((result # NoneVal) <=> (i % 5 = 0 /\ i >= 28))
    /\ pc \in {"loop", "signal", "compile", "done"} => result = NoneVal
    /\ LET all == state.open_orders \o state.closed_orders
       IN  \A j, k \in 1..Len(all) : all[j].entry_time = all[k].entry_time => j = k
    /\ BarsEntered < 28 => (Orders = {} /\ result = NoneVal /\ signal = NoneVal)

\* The first signal is requested on bar 30, and it opens an order.
C10_Witness ==
    /\ pc = "equity"
    /\ i = 30
    /\ result # NoneVal
    /\ Len(state.open_orders) = 1

\* The order a state of UnitSpec was built with, wherever it is now
UnitOrder ==
    IF state.open_orders # <<>> THEN state.open_orders[1] ELSE state.closed_orders[1]

\* C11: a closed order has profit_pips = (exit - entry) / u for a BUY and
\* (entry - exit) / u for a SELL, with u = 0.01 if entry_price > 10 and 0.0001
\* otherwise, and profit_loss = profit_pips * lot_size * 10.  Scenario A: the
\* BUY with entry 1.1000, take profit 1.1050, stop loss 1.0950 and lot 0.01 is
\* closed by the bar with high 1.1060 and low 1.0990 at 1.1050, with 50 pips
\* and 5.0 dollars.  Scenario C: a SELL with entry 149.50 closed at 149.00
\* has 50 pips.
C11_ClosePnL ==
    /\ \A o \in Orders :
        o.is_closed =>
            LET x == o.exit_price[1]
                u == IF o.entry_price > 200000 THEN 200 ELSE 2
                diff == IF o.order_type = BUY THEN x - o.entry_price ELSE o.entry_price - x
            IN  \* half pips * u = 2 * ticks; both sides of the second line in 0.005 cents
                /\ o.profit_pips * u = 2 * diff
                /\ 2 * 100 * (o.profit_loss * 5) = o.profit_pips * o.lot_size * 10 * 100
    /\ (/\ pc = "checked"
        /\ price_bar[1].high = 22120 /\ price_bar[1].low = 21980
        /\ UnitOrder.order_type = BUY /\ UnitOrder.entry_price = 22000
        /\ UnitOrder.take_profit = 22100 /\ UnitOrder.stop_loss = 21900)
       => /\ state.open_orders = <<>>
          /\ UnitOrder.exit_price = <<22100>>
          /\ UnitOrder.profit_pips = 100
          /\ UnitOrder.profit_loss = 100
    /\ \A o \in Orders :
        (o.order_type = SELL /\ o.entry_price = 2990000 /\ o.exit_price = <<2980000>>)
            => o.profit_pips = 100

\* Scenario A has been run.
C11_Witness ==
    /\ pc = "checked"
    /\ state.closed_orders # <<>>
    /\ UnitOrder.order_type = BUY /\ UnitOrder.entry_price = 22000
    /\ UnitOrder.take_profit = 22100 /\ UnitOrder.stop_loss = 21900
    /\ price_bar[1].high = 22120 /\ price_bar[1].low = 21980

\* The sum of the profit_loss of the first k orders of a sequence
RECURSIVE Total(_, _)
Total(orders, k) == IF k = 0 THEN 0 ELSE Total(orders, k - 1) + orders[k].profit_loss

\* C12: in the report, total_trades is the number of closed orders,
\* winning_trades the number of them with profit_loss > 0, losing_trades the
\* number with profit_loss <= 0 (a profit_loss of 0 counts as losing), so
\* winning_trades + losing_trades = total_trades; win_rate is
\* winning_trades / total_trades, or 0 without trades, and lies in [0, 1];
\* total_profit_loss is the sum of the profit_loss of the closed orders.
C12_ResultCounts ==
    pc = "done" =>
        LET r == report[1]
            closed == state.closed_orders
            n == Len(closed)
        IN  /\ r.total_trades = n
            /\ r.winning_trades = Cardinality({k \in 1..n : closed[k].profit_loss > 0})
            /\ r.losing_trades = Cardinality({k \in 1..n : closed[k].profit_loss <= 0})
            /\ r.winning_trades + r.losing_trades = r.total_trades
            /\ IF n > 0 THEN r.win_rate[1] * n = r.winning_trades * r.win_rate[2]
                        ELSE r.win_rate[1] = 0
            /\ r.win_rate[2] > 0 /\ 0 <= r.win_rate[1] /\ r.win_rate[1] <= r.win_rate[2]
            /\ r.total_profit_loss = Total(closed, n)

\* A report over a winning trade and a trade with profit_loss = 0.
C12_Witness ==
    /\ pc = "done"
    /\ report[1].winning_trades = 1
    /\ report[1].losing_trades = 1
    /\ \E k \in 1..Len(state.closed_orders) : state.closed_orders[k].profit_loss = 0

\* C13: with no closed trade (an empty price series included) the report has
\* win_rate 0, sharpe_ratio 0, total_profit_loss 0 and no trades;
\* sharpe_ratio is 0 as well with exactly one trade, and whenever all trades
\* have the same profit_loss; an order opened on a bar with high = low goes
\* through its open, its exit checks and its close without an error.
C13_DegenerateReports ==
    /\ pc # "failed"
    /\ pc = "done" =>
        LET r == report[1]
            closed == state.closed_orders
            n == Len(closed)
        IN  /\ n = 0 => /\ r.win_rate[1] = 0
                        /\ r.sharpe_ratio.sign = 0 /\ r.sharpe_ratio.square[1] = 0
                        /\ r.total_profit_loss = 0
                        /\ r.trades = <<>>
            /\ (n = 1 \/ \A j, k \in 1..n : closed[j].profit_loss = closed[k].profit_loss)
                   => r.sharpe_ratio.sign = 0 /\ r.sharpe_ratio.square[1] = 0

\* C14: _compile_results is idempotent: the call leaves balance,
\* max_drawdown, open_orders, closed_orders and every field of every order as
\* they were, and a second call, on the state the first one left, gives the
\* report the first one gave.
C14_CompileIdempotent ==
    [][pc = "compile" =>
          /\ state' = state
          /\ \E std_positive \in std_is_positive(state'.closed_orders) :
                report' = Some(compile_results(state', std_positive))]_vars

\* A report has been compiled over closed trades that moved the balance.
C14_Witness ==
    /\ pc = "done"
    /\ Len(state.closed_orders) >= 2
    /\ state.balance # sim.initial_balance
    /\ report[1].trades # <<>>

\* The phase of the run: RUNNING (0), FINALIZING (1), DONE (2)
Phase ==
    CASE pc \in {"loop", "signal", "equity"} -> 0
      [] pc = "compile" -> 1
      [] pc = "done" -> 2
      [] OTHER -> 0 - 1

\* A bound on the steps the run can still take: three per bar not yet
\* entered, what is left of the bar it is in, the flush and the report
StepsLeft ==
    CASE pc = "loop" -> 3 * (market.max_bars - i) + 2
      [] pc = "signal" -> 3 * (market.max_bars - i) + 1
      [] pc = "equity" -> 3 * (market.max_bars - i)
      [] pc = "compile" -> 1
      [] pc = "done" -> 0
      [] OTHER -> 0 - 1

\* C15: over any finite price series (the empty one included) the run is
\* RUNNING, one step per bar, each bar once and in series order, then
\* FINALIZING (the flush), then DONE (the report); it never goes back to an
\* earlier phase and, the signal source returning or failing on each call, it
\* reaches DONE: every step takes one off a finite count of steps left, and only
\* DONE has no next step.
C15_LifeCycle ==
    /\ [](Phase \in 0..2 /\ StepsLeft \in Nat)
    /\ [][/\ Phase' >= Phase
          /\ StepsLeft' < StepsLeft
          /\ (pc = "loop" /\ pc' = "signal") =>
                i' = i /\ price_bar'[1].timestamp = Timestamp(i)
          /\ pc = "signal" => i' = i /\ price_bar' = price_bar /\ pc' = "equity"
          /\ pc = "equity" => i' = i + 1 /\ pc' = "loop"
          /\ Phase' > 0 => i' = i]_vars
    /\ [](pc = "done" \/ ENABLED Next)
    /\ [](Phase >= 1 => state.open_orders = <<>>)
    /\ [](Phase = 2 <=> report # NoneVal)

\* A run over a full series that traded is DONE.
C15_Witness ==
    /\ pc = "done"
    /\ i = market.max_bars
    /\ state.closed_orders # <<>>

\* What a run draws when it is the only one in the process
AlonePrices(pair) == [k \in 1..NumBars |-> [seed |-> PriceSeed(pair), index |-> k - 1]]
AloneForecasts(pair) == [k \in 1..SignalCalls |-> [seed |-> DataSeed(pair), index |-> 0]]

\* C16: two runs executed concurrently, their steps interleaved in any order,
\* share no mutable state: the price series and the forecasts of each run,
\* and so its SimulationState and its report, are those of the run executed
\* alone.
C16_RunsIsolated ==
    \A t \in DOMAIN tasks :
        LET task == tasks[t]
        IN  /\ task.prices = SubSeq(AlonePrices(task.currency_pair), 1, Len(task.prices))
            /\ task.forecasts
                  = SubSeq(AloneForecasts(task.currency_pair), 1, Len(task.forecasts))

\* The exchange k is a POST /api/backtest that completed successfully
Posted(k) == exchanges[k].request.method = "POST" /\ exchanges[k].status = 200

\* After a successful POST, a GET of its backtest_id answers 200 with that
\* id, and the list contains the run; a GET of an id no successful POST
\* returned answers 404
RetrievalProtocol ==
    \A j \in 1..Len(exchanges) :
        LET x == exchanges[j]
            earlier == {k \in 1..(j - 1) : Posted(k)}
        IN  /\ x.request.method = "GET" =>
                IF \E k \in earlier : exchanges[k].body.backtest_id = x.request.backtest_id
                THEN x.status = 200 /\ x.body.backtest_id = x.request.backtest_id
                ELSE x.status = 404
            /\ x.request.method = "LIST" =>
                /\ x.status = 200
                /\ \A k \in earlier :
                      \E n \in 1..Len(x.body) :
                          x.body[n].backtest_id = exchanges[k].body.backtest_id

\* The pair a GET of a posted run answers is the pair posted, as posted (as
\* is), or upper-cased
AnswersPair(as_is) ==
    \A j \in 1..Len(exchanges), k \in 1..Len(exchanges) :
        (/\ k < j /\ Posted(k)
         /\ exchanges[j].request.method = "GET"
         /\ exchanges[j].request.backtest_id = exchanges[k].body.backtest_id
         /\ exchanges[j].status = 200)
        => LET posted == exchanges[k].request.body.currency_pair
           IN  exchanges[j].body.currency_pair = IF as_is THEN posted ELSE upper(posted)

\* C17 (as stated): after POST /api/backtest has completed and returned
\* backtest_id, GET /api/backtest/{backtest_id} answers 200 with the same
\* backtest_id and the currency pair of the request, and GET /api/backtest
\* lists the run; GET /api/backtest/{id} for an id no completed run was given
\* answers 404.
C17_RetrievalAsStated == RetrievalProtocol /\ AnswersPair(TRUE)

\* C17 (amended): the same, the currency pair answered being the pair of the
\* request in upper case.
C17_Retrieval == RetrievalProtocol /\ AnswersPair(FALSE)

\* A run posted with a lower-case pair has been fetched by its id, after an
\* earlier run was posted and an unknown id was answered 404.
C17_Witness ==
    /\ Len(exchanges) = 4
    /\ Posted(1)
    /\ exchanges[2].status = 404
    /\ Posted(3) /\ exchanges[3].request.body.currency_pair = "eurusd"
    /\ exchanges[4].request.method = "GET" /\ exchanges[4].status = 200
    /\ exchanges[4].body.backtest_id = exchanges[3].body.backtest_id

\* C18: on a bar, an open BUY is closed at take_profit if bar.high >=
\* take_profit, otherwise at stop_loss if bar.low <= stop_loss, and otherwise
\* stays open; an open SELL is closed at take_profit if bar.low <=
\* take_profit, otherwise at stop_loss if bar.high >= stop_loss, and otherwise
\* stays open; for every value of the levels, 0 included, and the exit price
\* is the level that triggered.
C18_ExitRule ==
    pc = "checked" =>
        LET o == UnitOrder
            bar == price_bar[1]
            tp_hit == IF o.order_type = BUY THEN bar.high >= o.take_profit
                                            ELSE bar.low <= o.take_profit
            sl_hit == IF o.order_type = BUY THEN bar.low <= o.stop_loss
                                            ELSE bar.high >= o.stop_loss
            closed_at(level) == /\ state.open_orders = <<>>
                                /\ state.closed_orders = <<o>>
                                /\ o.is_closed
                                /\ o.exit_price = <<level>>
        IN  IF tp_hit THEN closed_at(o.take_profit)
            ELSE IF sl_hit THEN closed_at(o.stop_loss)
            ELSE state.open_orders = <<o>> /\ state.closed_orders = <<>> /\ ~o.is_closed

\* The bar reaches one of the levels of the order
Reaches(bar, o) ==
    IF o.order_type = BUY THEN bar.high >= o.take_profit \/ bar.low <= o.stop_loss
                          ELSE bar.low <= o.take_profit \/ bar.high >= o.stop_loss

\* C19: on every bar the driver performs, in this order, (1) the exit check
\* of every order open at the start of the bar, once each, (2) the signal
\* request, if any, and at most one open, (3) the equity recomputation; no
\* order is opened before the exit checks of the bar are over, so that an
\* exit on a bar frees capacity for an open on the same bar.
C19_StepOrder ==
    [][/\ pc = "loop" => pc' \in {"signal", "compile"}
       /\ (pc = "loop" /\ pc' = "signal") =>
            LET bar == price_bar'[1]
                before == state.open_orders
                out == SelectSeq(before, LAMBDA o : Reaches(bar, o))
                n == Len(state.closed_orders)
            IN  /\ state'.open_orders = SelectSeq(before, LAMBDA o : ~Reaches(bar, o))
                /\ Len(state'.closed_orders) = n + Len(out)
                /\ SubSeq(state'.closed_orders, 1, n) = state.closed_orders
                /\ \A k \in 1..Len(out) :
                      LET c == state'.closed_orders[n + k]
                      IN  /\ c.entry_time = out[k].entry_time
                          /\ c.order_type = out[k].order_type
                          /\ c.is_closed
                          /\ c.exit_time = <<bar.timestamp>>
       /\ pc = "signal" =>
            /\ pc' = "equity"
            /\ state'.closed_orders = state.closed_orders
            /\ state'.balance = state.balance
            /\ \/ state'.open_orders = state.open_orders
               \/ /\ Len(state.open_orders) < 3
                  /\ Len(state'.open_orders) = Len(state.open_orders) + 1
                  /\ SubSeq(state'.open_orders, 1, Len(state.open_orders)) = state.open_orders
                  /\ state'.open_orders[Len(state'.open_orders)].entry_time
                        = price_bar[1].timestamp
                  /\ ~state'.open_orders[Len(state'.open_orders)].is_closed
       /\ pc = "equity" =>
            /\ pc' = "loop"
            /\ state'.open_orders = state.open_orders
            /\ state'.closed_orders = state.closed_orders
            /\ state'.balance = state.balance]_vars

\* After the signal step of a bar that began with 3 open orders: one of them
\* left on this bar, and the order opened on this bar is the third again.
C19_Witness ==
    /\ pc = "equity"
    /\ Len(state.open_orders) = 3
    /\ state.open_orders[3].entry_time = Timestamp(i)
    /\ Cardinality({k \in 1..Len(state.closed_orders) :
                        state.closed_orders[k].exit_time = <<Timestamp(i)>>}) = 1

\* C20: an order opened on a bar with close c and range r = high - low has
\* tp_distance = 2 * r * risk_factor and sl_distance = 1.5 * r * risk_factor;
\* a SELL records entry_price = c, take_profit = entry_price - tp_distance and
\* stop_loss = entry_price + sl_distance, no spread applied; a BUY records
\* entry_price = c + spread (spread_pips converted to a price) and
\* take_profit = entry_price + tp_distance, stop_loss = entry_price - sl_distance.
C20_LevelsAtOpen ==
    (/\ pc = "equity"
     /\ state.open_orders # <<>>
     /\ state.open_orders[Len(state.open_orders)].entry_time = price_bar[1].timestamp)
    => LET o == state.open_orders[Len(state.open_orders)]
           c == price_bar[1].close
           r == price_bar[1].high - price_bar[1].low
           tp_distance == 2 * r * sim.risk_factor
           twice_sl_distance == 3 * r * sim.risk_factor
           spread == sim.spread_pips * (IF c > 200000 THEN 200 ELSE 2)
       IN  IF o.order_type = SELL
           THEN /\ o.entry_price = c
                /\ o.take_profit = o.entry_price - tp_distance
                /\ 2 * o.stop_loss = 2 * o.entry_price + twice_sl_distance
           ELSE /\ o.entry_price = c + spread
                /\ o.take_profit = o.entry_price + tp_distance
                /\ 2 * o.stop_loss = 2 * o.entry_price - twice_sl_distance

\* The sum of the margins of the orders of a sequence
RECURSIVE SumMargin(_)
SumMargin(orders) ==
    IF orders = <<>> THEN 0 ELSE calculate_margin(Head(orders)) + SumMargin(Tail(orders))

\* C21: an open adds (lot_size * 100000) / leverage to margin_used and a close
\* takes the same amount off, so that in every state of the run, the states
\* after the end-of-run flush included, margin_used is the sum of the margins
\* of the orders in open_orders (0 when none is open) and is never negative.
C21_MarginOfOpenOrders ==
    /\ state.margin_used = SumMargin(state.open_orders)
    /\ state.margin_used >= 0

\* The realized side of the SimulationState
Realized(st) == <<st.balance, st.max_balance, st.max_drawdown, st.closed_orders>>

\* C22: balance changes only when an order closes: a step that changes it
\* appends to closed_orders; the signal step (with or without an open) and
\* the equity mark leave balance as it was; and a bar that closes no order
\* leaves balance, max_balance, max_drawdown and closed_orders as they were,
\* through its exit check, its signal step and its equity mark.
C22_BalanceOnlyOnClose ==
    [][/\ state'.balance # state.balance
            => /\ Len(state'.closed_orders) > Len(state.closed_orders)
               /\ pc = "loop" /\ pc' = "signal"
       /\ pc \in {"signal", "equity"} => Realized(state') = Realized(state)
       /\ (/\ pc = "loop" /\ pc' = "signal"
           /\ \A o \in Range(state.open_orders) : ~Reaches(price_bar'[1], o))
            => Realized(state') = Realized(state)]_vars

\* After the signal step of a bar that closed none of the orders open at its
\* start and opened one more, in a run whose balance an earlier close moved.
C22_Witness ==
    /\ pc = "equity"
    /\ Len(state.open_orders) >= 2
    /\ state.open_orders[Len(state.open_orders)].entry_time = price_bar[1].timestamp
    /\ state.balance # sim.initial_balance
    /\ \A c \in Range(state.closed_orders) : c.exit_time # <<price_bar[1].timestamp>>

\* What an order is opened with
Opening(o) ==
    <<o.order_type, o.entry_price, o.entry_time, o.lot_size, o.take_profit, o.stop_loss>>

\* C23: the direction, entry_price, entry_time, lot_size, take_profit and
\* stop_loss of an order never change after it is opened; an order is closed
\* at most once; and once it is closed, its exit_price, exit_time,
\* profit_pips, profit_loss and closed flag are not modified again by a later
\* bar step, by the end-of-run flush or by the compilation of the report.
C23_OrdersImmutable ==
    /\ [][/\ \A o \in Orders :
                \E n \in Orders' :
                    /\ Opening(n) = Opening(o)
                    /\ o.is_closed => n = o
          /\ \A k \in 1..Len(state.closed_orders) :
                /\ k <= Len(state'.closed_orders)
                /\ state'.closed_orders[k] = state.closed_orders[k]]_vars
    /\ [](\A j, k \in 1..Len(state.closed_orders) :
            state.closed_orders[j].entry_time = state.closed_orders[k].entry_time => j = k)

\* The run is DONE, and its ledger holds an order that an exit check closed
\* at one of its levels before the last bar, and an order the flush closed.
C23_Witness ==
    /\ pc = "done"
    /\ \E c, d \in Range(state.closed_orders) :
        /\ c.exit_time[1] < last_price[1].timestamp
        /\ c.exit_price[1] \in {c.take_profit, c.stop_loss}
        /\ c.exit_price[1] # last_price[1].close
        /\ d.exit_time[1] = last_price[1].timestamp
        /\ d.exit_price[1] \notin {d.take_profit, d.stop_loss}

\* The unrealized profit of the open order o at the price mark: the
\* favourable price difference in pips (of 0.01 above 10, of 0.0001
\* otherwise) times lot_size times 10.  In the units of the model a pip is u
\* ticks, a profit of v is 5 * v cents and the lot size is in 0.01 lots, so
\* that v * u = 2 * difference * lot_size.
MarkOf(o, mark) ==
    LET u == IF o.entry_price > 200000 THEN 200 ELSE 2
        favourable == IF o.order_type = BUY THEN mark - o.entry_price
                                            ELSE o.entry_price - mark
    IN  (2 * favourable * o.lot_size) \div u

MarkExact(o, mark) ==
    (2 * (mark - o.entry_price) * o.lot_size) % (IF o.entry_price > 200000 THEN 200 ELSE 2) = 0

\* C24: at the end of every bar step, equity = balance + the sum, over the
\* orders still open, of the favourable price difference between the close
\* of the bar and the entry price of the order, in pips of the order, times
\* lot_size times 10; in particular equity = balance when no order is open
\* at the end of the bar step.
C24_EquityMark ==
    (pc = "loop" /\ i > 0) =>
        LET open == state.open_orders
            mark == last_price[1].close
            v(k) == IF k <= Len(open) THEN MarkOf(open[k], mark) ELSE 0
        IN  /\ Len(open) <= 3
            /\ \A k \in 1..Len(open) : MarkExact(open[k], mark)
            /\ state.equity = state.balance + v(1) + v(2) + v(3)
            /\ open = <<>> => state.equity = state.balance

\* A bar step has ended with a BUY and a SELL open, the SELL away from the
\* close of the bar, and an equity other than the balance.
C24_Witness ==
    /\ pc = "loop" /\ i > 0
    /\ \E b, s \in Range(state.open_orders) :
          /\ b.order_type = BUY
          /\ s.order_type = SELL
          /\ s.entry_price # last_price[1].close
    /\ state.equity # state.balance

\* C25: closed_orders is append-only and in order of closing: every step
\* leaves what closed_orders held as a prefix of what it holds after the step,
\* exit_time does not decrease along closed_orders, and the trade list of the
\* report holds the closed orders, each once, in that order.
C25_LedgerAppendOnly ==
    /\ [][/\ Len(state'.closed_orders) >= Len(state.closed_orders)
          /\ SubSeq(state'.closed_orders, 1, Len(state.closed_orders))
                = state.closed_orders]_vars
    /\ [](\A j, k \in 1..Len(state.closed_orders) :
            j <= k => state.closed_orders[j].exit_time[1] <= state.closed_orders[k].exit_time[1])
    /\ [](pc = "done" =>
            /\ Len(report[1].trades) = Len(state.closed_orders)
            /\ \A k \in 1..Len(state.closed_orders) :
                  LET t == report[1].trades[k]
                      c == state.closed_orders[k]
                  IN  /\ t.type = c.order_type
                      /\ t.entry_price = c.entry_price /\ t.entry_time = c.entry_time
                      /\ t.exit_price = c.exit_price /\ t.exit_time = c.exit_time
                      /\ t.lot_size = c.lot_size
                      /\ t.take_profit = c.take_profit /\ t.stop_loss = c.stop_loss
                      /\ t.profit_loss = c.profit_loss /\ t.profit_pips = c.profit_pips)

\* The report of a run that closed orders on two bars at least, the order
\* opened first not being the one closed first.
C25_Witness ==
    /\ pc = "done"
    /\ \E j, k \in 1..Len(report[1].trades) :
          /\ j < k
          /\ report[1].trades[j].exit_time[1] < report[1].trades[k].exit_time[1]
          /\ report[1].trades[j].entry_time > report[1].trades[k].entry_time

\* C26: every signal request made on a bar i hands the signal source the
\* model type, the currency pair and the timeframe of the run and the lookback
\* window, the closes of the 28 bars i - 28 .. i - 1 of the price series of
\* the run (28 values, the last of them the close bar i opens at).
C26_SignalRequest ==
    (pc = "equity" /\ result # NoneVal) =>
        /\ predict_args # NoneVal
        /\ predict_args[1].model_type = run.model_type
        /\ predict_args[1].currency_pair = run.currency_pair
        /\ predict_args[1].timeframe = run.timeframe
        /\ "lookback" \in DOMAIN predict_args[1]
        /\ predict_args[1].lookback.length = 28
        /\ predict_args[1].lookback.last = price_bar[1].open

\* C27: in every state of a run, balance = initial_balance + the sum of
\* profit_loss over closed_orders; hence the report of a finished run has
\* final_balance = initial_balance + total_profit_loss.
C27_RealizedConservation ==
    /\ state.balance = sim.initial_balance + Total(state.closed_orders, Len(state.closed_orders))
    /\ pc = "done" =>
          report[1].final_balance = report[1].initial_balance + report[1].total_profit_loss

\* C28: every opened order has its entry price between its exit levels,
\* stop_loss <= entry_price <= take_profit for a BUY and take_profit <=
\* entry_price <= stop_loss for a SELL, whatever the range high - low >= 0 of
\* the bar it was opened on; hence an order closed at its take_profit never
\* has a negative profit_loss, and an order closed at its stop_loss never has
\* a positive one.
C28_LevelOrdering ==
    \A o \in Orders :
        /\ IF o.order_type = BUY
           THEN o.stop_loss <= o.entry_price /\ o.entry_price <= o.take_profit
           ELSE o.take_profit <= o.entry_price /\ o.entry_price <= o.stop_loss
        /\ (o.is_closed /\ o.exit_price = <<o.take_profit>>) => o.profit_loss >= 0
        /\ (o.is_closed /\ o.exit_price = <<o.stop_loss>>) => o.profit_loss <= 0

\* The orders the state holds, and the bars they were opened on
Held == Len(state.open_orders) + Len(state.closed_orders)
OpenedOn == {o.entry_time : o \in Orders}

\* A step of the signal branch that opens an order: a signal, and fewer than
\* 3 orders open
Opens == pc = "signal" /\ signal' # NoneVal /\ Len(state.open_orders) < 3

\* C29: in every state no order is both in open_orders and in closed_orders,
\* and none is twice in either; the orders opened so far are as many as
\* len(open_orders) + len(closed_orders): none is held at the start, a step
\* that opens an order adds one, the order of this bar, and any other step
\* keeps the orders held; at DONE every order ever opened is in the ledger
\* once, and total_trades is the number of opens.
C29_OrderConservation ==
    /\ [](LET all == state.open_orders \o state.closed_orders
          IN  \A j, k \in 1..Len(all) : Opening(all[j]) = Opening(all[k]) => j = k)
    /\ [](BarsEntered = 0 => Held = 0)
    /\ [][IF Opens
          THEN /\ Held' = Held + 1
               /\ price_bar[1].timestamp \notin OpenedOn
               /\ OpenedOn' = OpenedOn \cup {price_bar[1].timestamp}
          ELSE /\ Held' = Held
               /\ OpenedOn' = OpenedOn]_vars
    /\ [](pc = "done" =>
            /\ state.open_orders = <<>>
            /\ report[1].total_trades = Held
            /\ report[1].total_trades = Cardinality(OpenedOn))

\* The run is DONE with four trades, closed by exit checks and by the flush.
C29_Witness ==
    /\ pc = "done"
    /\ report[1].total_trades = 4
    /\ \E c, d \in Range(state.closed_orders) :
          /\ c.exit_time[1] < last_price[1].timestamp
          /\ d.exit_time[1] = last_price[1].timestamp
          /\ d.exit_price[1] \notin {d.take_profit, d.stop_loss}

\* C30: an order opened on bar i is not subjected to an exit check against
\* bar i itself: after the signal step it is open, whatever the bar reaches,
\* and its first exit check is that of bar i + 1, which closes it if it
\* reaches one of its levels.  Every closed order has exit_time >= entry_time,
\* with equality only for an order opened on the final bar and closed by the
\* end-of-run flush.
C30_OpenBeforeExit ==
    /\ [](pc \in {"signal", "equity"} =>
            \A c \in Range(state.closed_orders) : c.entry_time # price_bar[1].timestamp)
    /\ [][(pc = "signal" /\ Held' = Held + 1) =>
            LET o == state'.open_orders[Len(state'.open_orders)]
            IN  o.entry_time = price_bar[1].timestamp /\ ~o.is_closed]_vars
    /\ [][(pc = "loop" /\ pc' = "signal") =>
            \A o \in Range(state.open_orders) :
                (o.entry_time = Timestamp(i - 1) /\ Reaches(price_bar'[1], o)) =>
                    \E c \in Range(state'.closed_orders) :
                        /\ c.entry_time = o.entry_time
                        /\ c.exit_time = <<Timestamp(i)>>]_vars
    /\ [](\A c \in Range(state.closed_orders) :
            /\ c.exit_time[1] >= c.entry_time
            /\ c.exit_time[1] = c.entry_time =>
                  /\ pc \in {"compile", "done"}
                  /\ c.entry_time = Timestamp(i - 1)
                  /\ c.entry_time = last_price[1].timestamp
                  /\ c.exit_price = <<last_price[1].close>>)

\* After the signal step of a bar with high = low: the BUY it opened has both
\* levels at the close of the bar, within the bar, and is open.
C30_Witness ==
    /\ pc = "equity"
    /\ state.open_orders # <<>>
    /\ LET o == state.open_orders[Len(state.open_orders)]
       IN  /\ o.entry_time = price_bar[1].timestamp
           /\ o.order_type = BUY
           /\ Reaches(price_bar[1], o)

====
